---- MODULE Spec2Model ----
(***************************************************************************)
(* Model of conference-archive's Zenodo synchronisation:                   *)
(*   src/zen/api.py                      the remote client (zen.api)       *)
(*   src/scripts/upload_to_zenodo_seq.py upload() and archive()            *)
(*                                                                         *)
(* Python values are encoded as follows.  None / '' for a zenodo_id, doi   *)
(* or url is 0 (all are falsy in `if not ismir_paper['zenodo_id']`); an    *)
(* unbound local variable is Unbound; an optional compound value is a      *)
(* record with an isNone field.  A raised exception is the name of its     *)
(* class; "return" stands for a normal return.                             *)
(***************************************************************************)
EXTENDS Integers, Sequences, FiniteSets, TLC

VARIABLES TOKENS, api, catalog, output, nextId, last

vars == <<TOKENS, api, catalog, output, nextId, last>>

(***************************************************************************)
(* Bounds of the model.                                                    *)
(***************************************************************************)
\* number of papers in the local catalog
NumPapers == 2
\* number of identifiers the remote can allocate
MaxIds == 2

(***************************************************************************)
(* zen.api : constants                                                     *)
(***************************************************************************)
DEV == "dev"
PROD == "prod"
Stages == {DEV, PROD}
\* the value of kwargs.get('stage', None) when the keyword is not given
NoStage == "None"
\* os.environ.get(...) of a variable that is not set
NoToken == "None"
Token == "token"

Ops == {"create_id", "new_version_for_id", "upload_file", "reupload_file",
        "update_metadata", "publish", "edit", "get", "list_items"}

\* HTTP statuses the remote answers with
Statuses == {200, 299, 300, 400, 500}
\* JSON payloads of a response (resp.json())
Payloads == {"p1", "p2"}

\* A response of the remote: its status, its payload, and whether the
\* payload has the key ['links']['latest_draft'].
Responses == [status : Statuses, payload : Payloads, links : BOOLEAN]

\* What the remote and the network do to one client call: a response, or
\* no connection (the probe of _is_online fails and resp is never read).
OfflineReply == [online |-> FALSE,
                 resp |-> [status |-> 500, payload |-> "p2", links |-> FALSE]]
Replies == [online : {TRUE}, resp : Responses] \cup {OfflineReply}

Outcome(kind, arg, reqs, name) ==
    [kind |-> kind, arg |-> arg, reqs |-> reqs, name |-> name]

(***************************************************************************)
(* _is_online: one probe request; ConnectionError means offline.           *)
(***************************************************************************)
is_online(reply) == reply.online

(***************************************************************************)
(* The decorated function's own body: the HTTP request and the handling    *)
(* of its response.  reqs are the network requests made so far, http says  *)
(* whether filepath starts with 'http' (and fp is None), version is the    *)
(* version argument of reupload_file (0 for None).                         *)
(***************************************************************************)
func(op, resp, reqs, http, version) ==
    LET fetch == IF op \in {"upload_file", "reupload_file"} /\ http
                 THEN Append(reqs, "fetch") ELSE reqs
        sent  == Append(fetch, "api")
        name  == IF op = "reupload_file" THEN version ELSE 0
    IN  IF op = "edit"
        THEN Outcome("return", resp.payload, sent, name)
        ELSE IF op = "new_version_for_id" /\ ~resp.links
        THEN Outcome("KeyError", "links", sent, name)
        ELSE IF op = "reupload_file"
        THEN IF resp.status >= 300 /\ resp.status \notin {400}
             THEN Outcome("ZenodoApiError", resp.payload, sent, name)
             ELSE Outcome("return", resp.payload, sent, name)
        ELSE IF resp.status >= 300
        THEN Outcome("ZenodoApiError", resp.payload, sent, name)
        ELSE Outcome("return", resp.payload, sent, name)

(***************************************************************************)
(* verify_token: the wrapper around every client operation.                *)
(***************************************************************************)
verify_token_probe_first(op, stage, tokens, reply, http, version) ==
    IF stage = NoStage
    THEN Outcome("ValueError", "stage", <<>>, 0)
    ELSE IF ~is_online(reply)
    THEN Outcome("ZenodoApiError", "not connected", <<"probe">>, 0)
    ELSE IF tokens[stage] = NoToken
    THEN Outcome("EnvironmentError", stage, <<"probe">>, 0)
    ELSE func(op, reply.resp, <<"probe">>, http, version)

verify_token(op, stage, tokens, reply, http, version) ==
    IF stage = NoStage
    THEN Outcome("ValueError", "stage", <<>>, 0)
    ELSE IF tokens[stage] = NoToken
    THEN Outcome("EnvironmentError", stage, <<>>, 0)
    ELSE IF ~is_online(reply)
    THEN Outcome("ZenodoApiError", "not connected", <<"probe">>, 0)
    ELSE func(op, reply.resp, <<"probe">>, http, version)

(***************************************************************************)
(* The remote client operations, called directly.  Each records the call   *)
(* and its outcome in api.                                                 *)
(***************************************************************************)
NoCall ==
    [op |-> "none", stage |-> NoStage, reply |-> [online |-> TRUE,
     resp |-> [status |-> 200, payload |-> "p1", links |-> TRUE]],
     http |-> FALSE, version |-> 0, out |-> Outcome("return", "", <<>>, 0)]

\* the call and what verify_token's wrapper returns or raises for it
client(op, stage, reply, http, version) ==
    [op |-> op, stage |-> stage, reply |-> reply, http |-> http,
     version |-> version,
     out |-> verify_token(op, stage, TOKENS, reply, http, version)]

\* the keyword stage of a call: a stage, or not given
StageArgs == Stages \cup {NoStage}

create_id ==
    \E stage \in StageArgs, reply \in Replies :
        /\ api' = client("create_id", stage, reply, FALSE, 0)
        /\ UNCHANGED <<TOKENS, catalog, output, nextId, last>>

new_version_for_id ==
    \E stage \in StageArgs, reply \in Replies :
        /\ api' = client("new_version_for_id", stage, reply, FALSE, 0)
        /\ UNCHANGED <<TOKENS, catalog, output, nextId, last>>

upload_file ==
    \E stage \in StageArgs, reply \in Replies, http \in BOOLEAN :
        /\ api' = client("upload_file", stage, reply, http, 0)
        /\ UNCHANGED <<TOKENS, catalog, output, nextId, last>>

reupload_file ==
    \E stage \in StageArgs, reply \in Replies, http \in BOOLEAN,
       version \in {0, 2, 3} :
        /\ api' = client("reupload_file", stage, reply, http, version)
        /\ UNCHANGED <<TOKENS, catalog, output, nextId, last>>

update_metadata ==
    \E stage \in StageArgs, reply \in Replies :
        /\ api' = client("update_metadata", stage, reply, FALSE, 0)
        /\ UNCHANGED <<TOKENS, catalog, output, nextId, last>>

publish ==
    \E stage \in StageArgs, reply \in Replies :
        /\ api' = client("publish", stage, reply, FALSE, 0)
        /\ UNCHANGED <<TOKENS, catalog, output, nextId, last>>

edit ==
    \E stage \in StageArgs, reply \in Replies :
        /\ api' = client("edit", stage, reply, FALSE, 0)
        /\ UNCHANGED <<TOKENS, catalog, output, nextId, last>>

get ==
    \E stage \in StageArgs, reply \in Replies :
        /\ api' = client("get", stage, reply, FALSE, 0)
        /\ UNCHANGED <<TOKENS, catalog, output, nextId, last>>

list_items ==
    \E stage \in StageArgs, reply \in Replies :
        /\ api' = client("list_items", stage, reply, FALSE, 0)
        /\ UNCHANGED <<TOKENS, catalog, output, nextId, last>>

(***************************************************************************)
(* scripts/upload_to_zenodo_seq.py : upload()                              *)
(*                                                                         *)
(* A paper is [title, zenodo_id, doi, url, ee, http]: ee is 0 while the    *)
(* file is at its original location (http: that location is a URL) and     *)
(* the identifier of the record that hosts it after an upload.  A prior    *)
(* remote snapshot is [title, zenodo_id, checksum, version]: checksum and  *)
(* version are those of the file the remote holds (version 0: the file     *)
(* name has no suffix); upload() reads only its zenodo_id.  The lookup of   *)
(* the conference and zen.models.merge compute the metadata block, which   *)
(* no client call's outcome depends on; pdb.set_trace() (line 88) suspends *)
(* the run and lets it go on.                                              *)
(***************************************************************************)
\* a local name that has not been assigned
Unbound == -1

None == [isNone |-> TRUE]
Some(v) == [isNone |-> FALSE, val |-> v]

\* the frame of a running upload(): the pending exception ("none" when
\* there is none), the locals, the client calls issued so far and the
\* remote's identifier counter
Frame(paper, calls, next) ==
    [exc |-> "none", zid |-> Unbound, paper |-> paper, log |-> calls,
     nextId |-> next, publish_response |-> 0]

Raise(f, exception) == [f EXCEPT !.exc = exception]

\* The remote's replies to the client calls of a pass.  Only edit goes on
\* after a rejected request, so one fault (the failAt-th call is rejected
\* or finds no connection) and the reply to edit are all that can vary.
OkReply == [online |-> TRUE,
            resp |-> [status |-> 200, payload |-> "p1", links |-> TRUE]]
RejectedReply == [online |-> TRUE,
                  resp |-> [status |-> 500, payload |-> "p2", links |-> FALSE]]
FaultFree == [failAt |-> 0, fault |-> RejectedReply, editRejected |-> FALSE]
ReplyAt(oracle, n, op) ==
    IF n = oracle.failAt THEN oracle.fault
    ELSE IF op = "edit" /\ oracle.editRejected THEN RejectedReply
    ELSE OkReply

\* the replies that differ for a pass whose fault-free run issues the
\* calls of log: a reply that is never read is not varied
Answered(log) == {k \in DOMAIN log : log[k].status # 0}
Oracles(log) ==
    [failAt : Answered(log) \cup {0},
     fault : {RejectedReply, OfflineReply},
     editRejected : {FALSE} \cup {TRUE : k \in {j \in Answered(log) : log[j].op = "edit"}}]
    \ {o \in [failAt : {0}, fault : {OfflineReply}, editRejected : BOOLEAN] : TRUE}

\* the frame after a client call that ended with outcome out: the call is
\* logged with the version suffix of the file name it sent (0: none) and
\* the status of the response (0 when no request was sent); a successful
\* create_id returns the identifier the remote allocates
called(f, op, zid, reply, out) ==
    [f EXCEPT
       !.exc = IF out.kind = "return" THEN "none" ELSE out.kind,
       !.log = Append(@, [op |-> op, zid |-> zid, kind |-> out.kind,
                          name |-> out.name,
                          status |-> IF "api" \in
                                        {out.reqs[k] : k \in DOMAIN out.reqs}
                                     THEN reply.resp.status ELSE 0,
                          ret |-> IF op = "create_id" /\ out.kind = "return"
                                  THEN f.nextId ELSE 0]),
       !.nextId = IF op = "create_id" /\ out.kind = "return" THEN @ + 1 ELSE @,
       !.zid = IF op = "create_id" /\ out.kind = "return" THEN f.nextId ELSE @,
       !.publish_response = IF op = "publish" /\ out.kind = "return"
                            THEN zid ELSE @]

answered(f, op, zid, stage, tokens, reply) ==
    called(f, op, zid, reply,
           verify_token(op, stage, tokens, reply, f.paper.http, 0))

\* zen.<op>(zid, ..., stage=stage): one client call made by upload()
Call(f, op, zid, stage, tokens, oracle) ==
    IF f.exc # "none" THEN f
    ELSE answered(f, op, zid, stage, tokens,
                  ReplyAt(oracle, Len(f.log) + 1, op))

\* the identifier of the new version's draft taken as zid
rebound(f) ==
    IF f.exc # "none" THEN f ELSE [f EXCEPT !.zid = f.nextId, !.nextId = @ + 1]

new_or_update_rebinds(f, stage, tokens, oracle) ==
    IF f.paper.zenodo_id = 0
    THEN Call(f, "create_id", 0, stage, tokens, oracle)
    ELSE rebound(Call(f, "new_version_for_id", f.paper.zenodo_id, stage,
                      tokens, oracle))

\* lines 67-74: a new submission gets an identifier; in update mode the
\* argument zid of new_version_for_id is read before it is assigned
new_or_update(f, stage, tokens, oracle) ==
    IF f.paper.zenodo_id = 0
    THEN Call(f, "create_id", 0, stage, tokens, oracle)
    ELSE Raise(f, "UnboundLocalError")

\* line 78: str(zid)
read_zid(f) ==
    IF f.exc = "none" /\ f.zid = Unbound THEN Raise(f, "UnboundLocalError") ELSE f

\* lines 76-90: mark the previous record obsolete and publish it again
obsolete_old(f, old_zenodo, stage, tokens, oracle) ==
    IF f.exc # "none" \/ old_zenodo.isNone THEN f
    ELSE Call(Call(read_zid(Call(f, "edit", old_zenodo.val.zenodo_id,
                                 stage, tokens, oracle)),
                   "update_metadata", old_zenodo.val.zenodo_id, stage, tokens, oracle),
              "publish", old_zenodo.val.zenodo_id, stage, tokens, oracle)

\* line 94: ee becomes the download link of the uploaded file
linked(f) ==
    IF f.exc # "none" THEN f ELSE [f EXCEPT !.paper.ee = f.zid]

\* lines 106-108: the write-back
written(f) ==
    IF f.exc # "none" THEN f
    ELSE [f EXCEPT !.paper.doi = f.publish_response,
                   !.paper.url = f.publish_response,
                   !.paper.zenodo_id = f.zid]

\* lines 92-108: upload the file, push the metadata, publish, write back
push_metadata_first(f, dry_run, stage, tokens, oracle) ==
    IF f.exc # "none" \/ dry_run THEN f
    ELSE written(Call(linked(Call(Call(f, "update_metadata", f.zid, stage, tokens, oracle),
                                  "upload_file", f.zid, stage, tokens, oracle)),
                      "publish", f.zid, stage, tokens, oracle))

unpublished(f) ==
    IF f.exc # "none" THEN f ELSE [f EXCEPT !.publish_response = f.zid]

push_unpublished(f, dry_run, stage, tokens, oracle) ==
    IF f.exc # "none" \/ dry_run THEN f
    ELSE written(unpublished(
             Call(linked(Call(f, "upload_file", f.zid, stage, tokens, oracle)),
                  "update_metadata", f.zid, stage, tokens, oracle)))

push(f, dry_run, stage, tokens, oracle) ==
    IF f.exc # "none" \/ dry_run THEN f
    ELSE written(Call(Call(linked(Call(f, "upload_file", f.zid, stage, tokens, oracle)),
                           "update_metadata", f.zid, stage, tokens, oracle),
                      "publish", f.zid, stage, tokens, oracle))

\* upload(ismir_paper, conferences, stage, old_zenodo, dry_run): returns
\* the frame at the return statement or at the raise
upload(paper, stage, old_zenodo, dry_run, tokens, oracle, calls, next) ==
    push(obsolete_old(new_or_update(Frame(paper, calls, next),
                                    stage, tokens, oracle),
                      old_zenodo, stage, tokens, oracle),
         dry_run, stage, tokens, oracle)

(***************************************************************************)
(* scripts/upload_to_zenodo_seq.py : archive()                             *)
(***************************************************************************)
NoPaper == [title |-> 0, zenodo_id |-> 0, doi |-> 0, url |-> 0, ee |-> 0,
            http |-> FALSE]

\* v[key] for v None or a list, key "0" (the integer 0) or a str
subscript(v, key) ==
    IF v.isNone THEN [exc |-> "TypeError", val |-> NoPaper]
    ELSE IF key # "0" THEN [exc |-> "TypeError", val |-> NoPaper]
    ELSE IF Len(v.val) = 0 THEN [exc |-> "IndexError", val |-> NoPaper]
    ELSE [exc |-> "none", val |-> v.val[1]]

\* line 118: the records of the output catalog with the paper's title
matching(out, paper) ==
    IF out.isNone THEN None
    ELSE Some(SelectSeq(out.val, LAMBDA o : o.title = paper.title))

\* line 119: paper['zenodo_id'] = old_zenodo['zenodo_id']
assigned(paper, item) ==
    [exc |-> item.exc, paper |-> [paper EXCEPT !.zenodo_id = item.val.zenodo_id]]

\* line 123: final.append(res)
appended(st, f) ==
    [exc |-> f.exc, log |-> f.log, nextId |-> f.nextId, done |-> st.done,
     final |-> IF f.exc = "none" THEN Append(st.final, f.paper) ELSE st.final]

\* lines 120-123, with p119 the paper after line 119 and arg the value of
\* old_zenodo[0]
uploaded(st, p119, arg, stage, dry_run, tokens, oracle) ==
    IF p119.exc # "none" THEN [st EXCEPT !.exc = p119.exc]
    ELSE IF arg.exc # "none" THEN [st EXCEPT !.exc = arg.exc]
    ELSE appended(st, upload(p119.paper, stage, Some(arg.val), dry_run, tokens,
                             oracle, st.log, st.nextId))

\* line 115: the loop takes up the next paper
taken(st) == [st EXCEPT !.done = @ + 1]

\* lines 115-123: the body of the loop for one paper; st is the state of
\* the running archive(): exc, final, the client calls issued, nextId and
\* done, the number of papers taken up
archive_body(st, paper, stage, dry_run, out, tokens, oracle) ==
    uploaded(taken(st),
             IF out.isNone THEN [exc |-> "none", paper |-> paper]
             ELSE assigned(paper, subscript(matching(out, paper), "zenodo_id")),
             subscript(matching(out, paper), "0"),
             stage, dry_run, tokens, oracle)

\* archive(proceedings, conferences, stage, num_cpus, verbose, dry_run, output):
\* loop[k] is the state after the first k papers; an exception ends the loop
archive(proceedings, stage, dry_run, out, tokens, oracle, next) ==
    LET loop[k \in 0..Len(proceedings)] ==
            IF k = 0
            THEN [exc |-> "none", log |-> <<>>, nextId |-> next, done |-> 0,
                  final |-> <<>>]
            ELSE IF loop[k - 1].exc # "none" THEN loop[k - 1]
            ELSE archive_body(loop[k - 1], proceedings[k], stage, dry_run, out,
                              tokens, oracle)
    IN  loop[Len(proceedings)]

(***************************************************************************)
(* The state: TOKENS is read from the environment when zen.api is          *)
(* imported; catalog holds the caller's paper records, output the content  *)
(* of the output catalog (None while the file does not exist), nextId the  *)
(* next identifier of the remote; last describes the last call of          *)
(* upload() or archive() and api the last direct client call.              *)
(***************************************************************************)
\* the prior snapshots a caller may hold for a paper: of the paper's own
\* record when it has one (with the same or another file, with or without
\* a version suffix), of any record of the remote otherwise
Snapshots(paper, next) ==
    IF paper.zenodo_id # 0
    THEN {[title |-> paper.title, zenodo_id |-> paper.zenodo_id,
           checksum |-> c[1], version |-> c[2]] :
             c \in {<<"X", 0>>, <<"Y", 0>>, <<"Y", 2>>}}
    ELSE {[title |-> paper.title, zenodo_id |-> z, checksum |-> "X",
           version |-> 0] : z \in 1..(next - 1)}

Init ==
    /\ TOKENS \in [Stages -> {NoToken, Token}]
    /\ api = NoCall
    /\ catalog = [i \in 1..NumPapers |->
                    [title |-> i, zenodo_id |-> 0, doi |-> 0, url |-> 0,
                     ee |-> 0, http |-> (i % 2 = 0)]]
    /\ output = None
    /\ nextId = 1
    /\ last = [fn |-> "none", i |-> 0, old |-> None,
               dry_run |-> FALSE, out |-> None, before |-> NoPaper,
               exc |-> "none", log |-> <<>>, ret |-> NoPaper, final |-> <<>>,
               done |-> 0]

\* the caller keeps the record upload() returns in place of the paper
Uploaded(i, old_zenodo, dry_run, f) ==
    /\ nextId' = f.nextId
    /\ catalog' = IF f.exc = "none"
                  THEN [catalog EXCEPT ![i] = f.paper] ELSE catalog
    /\ last' = [fn |-> "upload", i |-> i, old |-> old_zenodo, dry_run |-> dry_run, out |-> None,
                before |-> catalog[i], exc |-> f.exc, log |-> f.log,
                ret |-> IF f.exc = "none" THEN f.paper ELSE NoPaper,
                final |-> <<>>, done |-> 0]
    /\ UNCHANGED <<TOKENS, api, output>>

\* A caller runs upload() on paper i of its catalog.
UploadCall ==
    /\ nextId <= MaxIds
    /\ \E i \in 1..NumPapers, stage \in Stages, dry_run \in BOOLEAN :
         \E old_zenodo \in {None} \cup {Some(s) : s \in Snapshots(catalog[i], nextId)} :
           \E oracle \in Oracles(upload(catalog[i], stage, old_zenodo, dry_run,
                                        TOKENS, FaultFree, <<>>, nextId).log) :
            Uploaded(i, old_zenodo, dry_run,
                     upload(catalog[i], stage, old_zenodo, dry_run, TOKENS,
                            oracle, <<>>, nextId))

\* lines 169-172: the results are written to the output file when
\* archive() returns
Archived(n, dry_run, st) ==
    /\ nextId' = st.nextId
    /\ output' = IF st.exc = "none" THEN Some(st.final) ELSE output
    /\ last' = [fn |-> "archive", i |-> n, old |-> None, dry_run |-> dry_run, out |-> output,
                before |-> NoPaper, exc |-> st.exc, log |-> st.log,
                ret |-> NoPaper, final |-> st.final, done |-> st.done]
    /\ UNCHANGED <<TOKENS, api, catalog>>

\* __main__: archive() over the first n papers of the catalog (max_items),
\* with the output catalog when the file exists.
ArchiveCall ==
    /\ nextId <= MaxIds
    /\ \E n \in 0..NumPapers, stage \in Stages, dry_run \in BOOLEAN :
         \E oracle \in Oracles(archive(SubSeq(catalog, 1, n), stage, dry_run,
                                       output, TOKENS, FaultFree, nextId).log) :
            Archived(n, dry_run,
                     archive(SubSeq(catalog, 1, n), stage, dry_run, output,
                             TOKENS, oracle, nextId))

Next == UploadCall \/ ArchiveCall

Spec == Init /\ [][Next]_vars

\* the remote client on its own
ApiNext ==
    \/ create_id
    \/ new_version_for_id
    \/ upload_file
    \/ reupload_file
    \/ update_metadata
    \/ publish
    \/ edit
    \/ get
    \/ list_items

ApiSpec == Init /\ [][ApiNext]_vars

(***************************************************************************)
(* Properties                                                              *)
(***************************************************************************)
\* the client calls of log to one of ops, in order
CallsTo(log, ops) == SelectSeq(log, LAMBDA c : c.op \in ops)

\* every client call of log got a response below 300 and returned
AllSucceeded(log) ==
    \A k \in DOMAIN log : log[k].kind = "return" /\ log[k].status \in 200..299

\* the checksum computed of a paper's local file
LocalChecksum(paper) == "X"

\* the last call is upload() on a paper that has a remote identifier,
\* with the prior snapshot of its record
Resynced ==
    /\ last.fn = "upload"
    /\ last.before.zenodo_id # 0
    /\ ~last.old.isNone
    /\ last.old.val.zenodo_id = last.before.zenodo_id
    /\ ~last.dry_run
    /\ AllSucceeded(last.log)

\* the last call is upload() on a paper without remote identifier and
\* without prior snapshot, not a dry run
FirstSync ==
    /\ last.fn = "upload"
    /\ last.before.zenodo_id = 0
    /\ last.old.isNone
    /\ ~last.dry_run

\* C1: upload() on a paper with no remote identifier and no prior
\* snapshot, every remote call succeeding, issues exactly create_id,
\* upload_file, update_metadata, publish, in that order, the last three on
\* the identifier create_id returned.
C1_FirstSyncCalls ==
    (FirstSync /\ AllSucceeded(last.log)) =>
        /\ [k \in DOMAIN last.log |-> last.log[k].op]
             = <<"create_id", "upload_file", "update_metadata", "publish">>
        /\ last.log[1].ret # 0
        /\ \A k \in 2..4 : last.log[k].zid = last.log[1].ret

C1_Witness ==
    /\ FirstSync
    /\ AllSucceeded(last.log)
    /\ Len(last.log) = 4
    /\ last.exc = "none"

\* C2: archive() over a batch without output catalog, not a dry run, every
\* remote call succeeding, returns one record per paper, in order, each
\* with zenodo_id, doi and url set, with one upload_file call per paper.
C2_ArchiveReturnsAllRecords ==
    (last.fn = "archive" /\ last.out.isNone /\ ~last.dry_run
        /\ AllSucceeded(last.log)) =>
        /\ last.exc = "none"
        /\ Len(last.final) = last.i
        /\ \A k \in DOMAIN last.final :
              /\ last.final[k].title = k
              /\ last.final[k].zenodo_id # 0
              /\ last.final[k].doi # 0
              /\ last.final[k].url # 0
        /\ Len(CallsTo(last.log, {"upload_file", "reupload_file"})) = last.i

\* C3: a pass over a paper with a remote identifier whose snapshot has the
\* checksum of the local file issues no file upload, one update_metadata
\* and one publish.
C3_UnchangedFileNoUpload ==
    (Resynced /\ last.old.val.checksum = LocalChecksum(last.before)) =>
        /\ Len(CallsTo(last.log, {"upload_file", "reupload_file"})) = 0
        /\ Len(CallsTo(last.log, {"update_metadata"})) = 1
        /\ Len(CallsTo(last.log, {"publish"})) = 1

C5_ChangedFileNextVersion ==
    (Resynced /\ last.old.val.checksum # LocalChecksum(last.before)) =>
        /\ Len(CallsTo(last.log, {"upload_file", "reupload_file"})) = 1
        /\ CallsTo(last.log, {"upload_file", "reupload_file"})[1].name
             = (IF last.old.val.version = 0 THEN 1 ELSE last.old.val.version) + 1

\* C6: with the token of the stage unset, every client operation raises
\* EnvironmentError without any network request.
C6_UnsetTokenNoRequest ==
    (api.op # "none" /\ api.stage \in Stages /\ TOKENS[api.stage] = NoToken) =>
        /\ api.out.kind = "EnvironmentError"
        /\ api.out.reqs = <<>>

C6_Witness ==
    /\ api.op = "publish"
    /\ api.stage \in Stages
    /\ TOKENS[api.stage] = NoToken
    /\ ~api.reply.online
    /\ api.out.kind = "EnvironmentError"

\* C7: a dry run issues no upload_file, update_metadata or publish call,
\* and a dry batch run returns a record for every paper.
C7_DryRunNoSideEffects ==
    (last.fn # "none" /\ last.dry_run) =>
        /\ Len(CallsTo(last.log, {"upload_file", "reupload_file",
                                  "update_metadata", "publish"})) = 0
        /\ last.fn = "archive" => (last.exc = "none" /\ Len(last.final) = last.i)

\* C8: whatever fails for one paper, archive() takes up every paper of the
\* batch.
C8_FailureSkipsOnlyOnePaper ==
    last.fn = "archive" => last.done = last.i

\* C9: a client operation other than edit raises ZenodoApiError with the
\* payload of the response whenever the status of the response is >= 300.
C9_RejectedRequestRaises ==
    (api.op \in Ops \ {"edit"} /\ "api" \in {api.out.reqs[k] : k \in DOMAIN api.out.reqs}
        /\ api.reply.resp.status >= 300) =>
        /\ api.out.kind = "ZenodoApiError"
        /\ api.out.arg = api.reply.resp.payload

\* C10: upload() returns no record when a client call raises, and a record
\* on which it wrote zenodo_id, doi and url only when upload_file,
\* update_metadata and publish succeeded, in that order, on that identifier;
\* the same holds of every record of archive()'s result.
PublishedIn(log, paper) ==
    \E a, b, c \in DOMAIN log :
        /\ a < b /\ b < c
        /\ log[a].op = "upload_file" /\ log[b].op = "update_metadata"
        /\ log[c].op = "publish"
        /\ \A k \in {a, b, c} : /\ log[k].kind = "return"
                                /\ log[k].status \in 200..299
                                /\ log[k].zid = paper.zenodo_id
        /\ paper.doi = paper.zenodo_id
        /\ paper.url = paper.zenodo_id

C10_WriteBackAfterPublish ==
    /\ (last.fn = "upload" /\ last.exc # "none") =>
          (last.ret = NoPaper /\ catalog[last.i] = last.before)
    /\ (last.fn = "upload" /\ last.exc = "none"
          /\ <<last.ret.zenodo_id, last.ret.doi, last.ret.url>>
               # <<last.before.zenodo_id, last.before.doi, last.before.url>>) =>
          PublishedIn(last.log, last.ret)
    /\ last.fn = "archive" =>
          \A k \in DOMAIN last.final :
              last.final[k].zenodo_id # 0 => PublishedIn(last.log, last.final[k])

C10_Witness ==
    /\ last.fn = "upload"
    /\ last.exc = "none"
    /\ last.ret.zenodo_id # 0
    /\ ~last.old.isNone
    /\ PublishedIn(last.log, last.ret)

====
